---------------------------- MODULE Spec2Model ----------------------------
(***************************************************************************)
(* Model of the KTLX reader (src/phypno/ioeeg/ktlx.py): the delta/escape   *)
(* sample decoder _read_erd, its memmap cache in temp_dir, and the random  *)
(* access reader Ktlx.return_dat.                                          *)
(*                                                                         *)
(* Bytes are the integers 0..255, byte strings are sequences of bytes.     *)
(* Python's 0-based indices are kept: matrices are functions over          *)
(* 0..n-1.  int32 cells keep their width: additions wrap modulo 2^32.      *)
(***************************************************************************)
EXTENDS Integers, Sequences, FiniteSets, TLC

VARIABLES
    hdr,        \* header of the .erd file being decoded (_read_hdr_file)
    n_samples,  \* argument of _read_erd
    dec,        \* the local state of one _read_erd call
    eof,        \* TRUE once a read went past the end of filebytes
    seen,       \* what the running call read for the sample it decoded last
    disk,       \* the recording directories: their .stc index and .erd files
    temp,       \* temp_dir: the memmap files, by file name
    ndecode,    \* how often the decode loop ran on each .erd path
    last,       \* the latest return_dat call and its outcome
    probe,      \* one request, fixed at the start
    probed,     \* what the first call of probe that returned, returned
    callers,    \* the _read_erd calls that run side by side, each with its locals
    call,       \* the latest call of a file-reading function and its outcome
    ktlx        \* a Ktlx object: its directory and the header it stores

decvars == <<hdr, n_samples, dec, eof, seen>>

readvars == <<disk, temp, ndecode, last, probe, probed, callers>>

filevars == <<call, ktlx>>

vars == <<hdr, n_samples, dec, eof, seen, disk, temp, ndecode, last, probe, probed,
          callers, call, ktlx>>

-----------------------------------------------------------------------------
(* Bounds of the model *)

MaxChan == 2        \* channel counts 1..MaxChan (plus WideChan)
MaxSam == 2         \* samples per segment 1..MaxSam
WideChan == 9       \* one channel count that needs two delta-mask bytes
MaxDecodes == 2     \* no further call once a path was decoded this often
MaxRecs == 2        \* records in a video index file 0..MaxRecs
MaxNotes == 2       \* notes in a notes file 0..MaxNotes

(* Program constants *)

BITS_IN_BYTE == 8
MaxInt32 == 2147483647
MinInt32 == -MaxInt32 - 1

-----------------------------------------------------------------------------
(* struct.unpack and int32 arithmetic *)

\* unpack('B', ...): one unsigned byte
Unpack_B(b) == b

\* unpack('b', val)[0]: one signed byte
Unpack_b(val) == IF val[1] >= 128 THEN val[1] - 256 ELSE val[1]

\* (mutant) the 2-byte field read unsigned, as unpack('H', val)[0]
Unpack_H(val) == val[1] + 256 * val[2]

\* unpack('h', val)[0]: little-endian signed 16 bit
Unpack_h(val) ==
    LET u == val[1] + 256 * val[2]
    IN  IF u >= 32768 THEN u - 65536 ELSE u

\* unpack('i', val)[0]: little-endian signed 32 bit
Unpack_i(val) ==
    val[1] + 256 * val[2] + 65536 * val[3]
        + 16777216 * (IF val[4] >= 128 THEN val[4] - 256 ELSE val[4])

\* p + d stored into an int32 cell: numpy wraps modulo 2^32.  Written so
\* that no intermediate value leaves the int32 range.
Add32(p, d) ==
    IF d >= 0 /\ p > MaxInt32 - d THEN MinInt32 + (d - 1 - (MaxInt32 - p))
    ELSE IF d < 0 /\ p < MinInt32 - d THEN (MaxInt32 + d) + 1 + (p - MinInt32)
    ELSE p + d

\* (mutant) '{0:08b}'.format(x) without the reversal: most significant first
RECURSIVE BitsMsbFirst(_, _)
BitsMsbFirst(x, n) ==
    IF n = 0 THEN <<>> ELSE BitsMsbFirst(x \div 2, n - 1) \o <<x % 2>>

\* '{0:08b}'.format(x)[::-1]: the bits of a byte, least significant first
RECURSIVE BitsLsbFirst(_, _)
BitsLsbFirst(x, n) ==
    IF n = 0 THEN <<>> ELSE <<x % 2>> \o BitsLsbFirst(x \div 2, n - 1)

\* (mutant) the bits of a mask byte without the reversal
MaskBitsMsbFirst(x) == BitsMsbFirst(x, BITS_IN_BYTE)

\* '{0:08b}'.format(x)[::-1] for one mask byte
MaskBits(x) == BitsLsbFirst(x, BITS_IN_BYTE)

\* ''.join(...) over the mask bytes
RECURSIVE JoinBits(_)
JoinBits(bytes) ==
    IF bytes = <<>> THEN <<>>
    ELSE MaskBits(Unpack_B(Head(bytes))) \o JoinBits(Tail(bytes))

\* int(ceil(n_chan / BITS_IN_BYTE))
l_deltamask(n_chan) == (n_chan + BITS_IN_BYTE - 1) \div BITS_IN_BYTE

\* (mutant) a sentinel of one byte for every schema
abs_delta_1byte(file_schema) ==
    IF file_schema = 7 THEN <<128>> ELSE <<255>>

\* abs_delta: the sentinel of the schema
abs_delta(file_schema) ==
    IF file_schema = 7 THEN <<128>> ELSE <<255, 255>>

\* i: where the sample stream starts
StreamStart(file_schema) == IF file_schema = 7 THEN 4560 ELSE 8656

\* output[i_c, sam - 1]: a negative index counts from the end
PyIdx(k, n) == IF k < 0 THEN n + k ELSE k


-----------------------------------------------------------------------------
(* _calculate_conversion *)

\* The hardware layouts: the gain formula of channel c (0-based) for a
\* headbox type, "none" past the end of the layout.  The gains are kept
\* symbolic: "eeg" = 8711 / (221 - 0.5), "dc4" = (5000000 / (210 - 0.5)) / 26,
\* "x26" = 1 / 26, "dc22" = (10800000 / 65536) / 26.
LayoutGain(headbox_type, c) ==
    CASE headbox_type \in {1, 3} -> "eeg"
      [] headbox_type = 4 ->
            IF c < 24 THEN "eeg" ELSE IF c < 28 THEN "dc4" ELSE "none"
      [] headbox_type = 21 ->
            IF c < 128 THEN "eeg" ELSE IF c < 130 THEN "x26"
            ELSE IF c < 256 THEN "eeg" ELSE "none"
      [] headbox_type = 22 ->
            IF c < 32 THEN "eeg" ELSE IF c < 40 THEN "dc22"
            ELSE IF c < 42 THEN "x26" ELSE IF c < 43 THEN "dc22" ELSE "none"
      [] OTHER -> "none"

SupportedHeadbox(headbox_type) == headbox_type \in {1, 3, 4, 21, 22}

\* factor[:n_chan] * 1e-6: one entry per channel the layout has, each the
\* gain scaled by 2 ** discardbits.
calculate_conversion(h) ==
    LET have == {c \in 0..(h.num_channels - 1) :
                    LayoutGain(h.headbox_type, c) # "none"}
    IN  [c \in have |-> [gain |-> LayoutGain(h.headbox_type, c),
                         discardbits |-> h.discardbits]]

\* one cell of expand_dims(factor, 1) * output
\* (0.0 whatever the factor when the raw value is 0)
Zero == [gain |-> "zero", discardbits |-> 0, raw |-> 0]

Scale(f, x) ==
    IF x = 0 THEN Zero
    ELSE [gain |-> f.gain, discardbits |-> f.discardbits, raw |-> x]

\* expand_dims(factor, 1) * output; broadcasting needs one factor per row
Calibrate(factor, output) ==
    [c \in DOMAIN output |-> [s \in DOMAIN output[c] |-> Scale(factor[c], output[c][s])]]

-----------------------------------------------------------------------------
(* _read_erd: the steps of the decode loop, as functions of the local state *)
(* d, the header h and the bytes the step slices out of filebytes.          *)

\* memmap(..., mode='w+', shape=(n_chan, n_samples), dtype=int32): zeros
NewOutput(n_chan, ns) == [c \in 0..(n_chan - 1) |-> [s \in 0..(ns - 1) |-> 0]]

\* the locals when the for loop is entered
StartDecode(h, ns) ==
    [pc |-> IF ns > 0 THEN "event" ELSE "factor",
     i |-> StreamStart(h.file_schema),
     sam |-> 0,
     i_c |-> 0,
     deltamask |-> <<>>,
     absvalue |-> <<>>,
     output |-> NewOutput(h.num_channels, ns),
     err |-> "",
     result |-> <<>>]

Raise(d, e) == [d EXCEPT !.pc = "error", !.err = e]

\* try: assert eventbite in (b'\x00', b'\x01')
\* except: Exception(...)      -- the exception is built, never raised
EventbiteRaises(eventbite) == FALSE

\* Event Byte
EventStep(d, eventbite) ==
    IF eventbite = <<>> THEN [d EXCEPT !.i = @ + 1, !.pc = "factor"]
    ELSE IF EventbiteRaises(eventbite) THEN Raise(d, "Exception")
    ELSE [d EXCEPT !.i = @ + 1, !.pc = "mask"]

\* Delta Information, file_schema 7: deltamask = '0' * n_chan
FakeMaskStep(d, h) ==
    [d EXCEPT !.deltamask = [c \in 1..h.num_channels |-> 0],
              !.absvalue = [c \in 0..(h.num_channels - 1) |-> FALSE],
              !.i_c = 0, !.pc = "delta"]

\* Delta Information, file_schema 8 or 9: unpack('B' * l_deltamask, ...)
MaskStep(d, h, bytes) ==
    IF Len(bytes) # l_deltamask(h.num_channels) THEN Raise(d, "struct.error")
    ELSE [d EXCEPT !.deltamask = JoinBits(bytes),
                   !.i = @ + l_deltamask(h.num_channels),
                   !.absvalue = [c \in 0..(h.num_channels - 1) |-> FALSE],
                   !.i_c = 0, !.pc = "delta"]

\* m: the character of deltamask[:n_chan] for channel i_c
MaskBit(d, i_c) == d.deltamask[i_c + 1]

\* the number of bytes of channel i_c's delta field
FieldWidth(m) == IF m = 1 THEN 2 ELSE 1

\* the for loops' bookkeeping: the next channel to read in full, or the
\* next sample, or the end of the loop
Advance(d, h, ns) ==
    LET rest == {c \in d.i_c..(h.num_channels - 1) : d.absvalue[c]}
    IN  IF rest # {}
        THEN [d EXCEPT !.pc = "abs",
                       !.i_c = CHOOSE c \in rest : \A k \in rest : c <= k]
        ELSE [d EXCEPT !.sam = @ + 1, !.i_c = 0,
                       !.pc = IF d.sam + 1 < ns THEN "event" ELSE "factor"]

\* one round of: for i_c, m in enumerate(deltamask[:n_chan])
DeltaStep(d, h, ns, val) ==
    LET i_c == d.i_c
        m == MaskBit(d, i_c)
        prev == d.output[i_c][PyIdx(d.sam - 1, ns)]
        d1 == [d EXCEPT !.i = @ + FieldWidth(m)]
        d2 == IF val = abs_delta(h.file_schema)
              THEN [d1 EXCEPT !.absvalue[i_c] = TRUE]
              ELSE IF Len(val) # FieldWidth(m) THEN Raise(d1, "struct.error")
              ELSE IF m = 1
              THEN [d1 EXCEPT !.output[i_c][d.sam] = Add32(prev, Unpack_h(val))]
              ELSE [d1 EXCEPT !.output[i_c][d.sam] = Add32(prev, Unpack_b(val))]
    IN  IF d2.pc = "error" THEN d2
        ELSE IF i_c + 1 < h.num_channels THEN [d2 EXCEPT !.i_c = i_c + 1]
        ELSE Advance([d2 EXCEPT !.i_c = 0], h, ns)

\* (mutant) the full value added to the previous sample's value
AbsStepAsDelta(d, h, ns, bytes) ==
    IF Len(bytes) # 4 THEN Raise(d, "struct.error")
    ELSE Advance([d EXCEPT !.output[d.i_c][d.sam] =
                               Add32(d.output[d.i_c][PyIdx(d.sam - 1, ns)],
                                     Unpack_i(bytes)),
                           !.i = @ + 4,
                           !.i_c = @ + 1], h, ns)

\* one round of: for i_c, to_read in enumerate(absvalue), with to_read true
AbsStep(d, h, ns, bytes) ==
    IF Len(bytes) # 4 THEN Raise(d, "struct.error")
    ELSE Advance([d EXCEPT !.output[d.i_c][d.sam] = Unpack_i(bytes),
                           !.i = @ + 4,
                           !.i_c = @ + 1], h, ns)

\* factor = _calculate_conversion(hdr); return expand_dims(factor, 1) * output
ReturnStep(d, h) ==
    IF ~SupportedHeadbox(h.headbox_type) THEN Raise(d, "NotImplementedError")
    ELSE LET factor == calculate_conversion(h)
         IN  IF DOMAIN factor # DOMAIN d.output THEN Raise(d, "ValueError")
             ELSE [d EXCEPT !.pc = "returned",
                            !.result = Calibrate(factor, d.output)]

\* how many bytes the next step slices out of filebytes
Need(d, h) ==
    CASE d.pc = "event" -> 1
      [] d.pc = "mask" -> IF h.file_schema = 7 THEN 0 ELSE l_deltamask(h.num_channels)
      [] d.pc = "delta" -> FieldWidth(MaskBit(d, d.i_c))
      [] d.pc = "abs" -> 4
      [] OTHER -> 0

-----------------------------------------------------------------------------
(* The contents of an .erd file, as far as one decode reads them *)

FileSchemas == {7, 8, 9}
HeadboxTypes == {1, 99}
ChanCounts == (1..MaxChan) \cup {WideChan}

EventWords == {<<0>>, <<1>>, <<2>>}
MaskByteVals == {0, 1, 2, 254}
Field1Words == {<<1>>, <<128>>, <<255>>}
Field2Words == {<<255, 255>>, <<1, 0>>, <<0, 128>>}
AbsWords == {<<255, 255, 255, 127>>, <<156, 255, 255, 255>>, <<0, 0, 0, 128>>}

RECURSIVE SeqsOf(_, _)
SeqsOf(S, n) ==
    IF n = 0 THEN {<<>>}
    ELSE {<<x>> \o t : x \in S, t \in SeqsOf(S, n - 1)}

\* With WideChan channels the field contents are held to two values per
\* width and one full value, which keeps the wide layout enumerable.
Wide(h) == h.num_channels > MaxChan
WideField1Words == {<<1>>, <<255>>}
WideField2Words == {<<255, 255>>, <<1, 0>>}
WideAbsWords == {<<156, 255, 255, 255>>}

\* filebytes[i:i + k] when the file holds at least k more bytes
FullSlices(d, h) ==
    CASE d.pc = "event" -> EventWords
      [] d.pc = "mask" -> SeqsOf(MaskByteVals, l_deltamask(h.num_channels))
      [] d.pc = "delta" ->
            IF FieldWidth(MaskBit(d, d.i_c)) = 2
            THEN (IF Wide(h) THEN WideField2Words ELSE Field2Words)
            ELSE (IF Wide(h) THEN WideField1Words ELSE Field1Words)
      [] d.pc = "abs" -> IF Wide(h) THEN WideAbsWords ELSE AbsWords
      [] OTHER -> {<<>>}

\* filebytes[i:i + k] when the file ends before i + k
ShortSlices(d, h) ==
    {SubSeq(w, 1, j) : w \in FullSlices(d, h), j \in 0..(Need(d, h) - 1)}

NoSeen ==
    [sam |-> -1, evpos |-> -1, maskbytes |-> <<>>,
     valpos |-> <<>>, vals |-> <<>>, absq |-> <<>>, bad |-> FALSE]

-----------------------------------------------------------------------------
(* Specification of one decode of a new segment: _read_erd with no cache    *)
(* file yet                                                                 *)

\* no return_dat call yet
NoCall ==
    [dir |-> "", chan |-> <<>>, begsam |-> 0, endsam |-> 0, status |-> "none",
     dat |-> <<>>, begrec |-> -1, endrec |-> -1, rounds |-> <<>>]

\* no file-reading function called yet
NoFileCall == [fn |-> "none", status |-> "none"]

\* no Ktlx object constructed
NoKtlx == [filename |-> ""]

\* the probe call has not returned yet
NoProbe == [set |-> FALSE, dat |-> <<>>, again |-> FALSE]

\* the reader's state while a single decode is looked at
IdleRead ==
    /\ disk = <<>>
    /\ temp = <<>>
    /\ ndecode = <<>>
    /\ last = NoCall
    /\ probe = NoCall
    /\ probed = NoProbe
    /\ callers = <<>>
    /\ call = NoFileCall
    /\ ktlx = NoKtlx

InitDecode ==
    /\ hdr \in [file_schema : FileSchemas, num_channels : ChanCounts,
                headbox_type : HeadboxTypes, discardbits : {0}]
    /\ n_samples \in 1..MaxSam
    /\ hdr.num_channels = WideChan => n_samples = 1
    /\ dec = StartDecode(hdr, n_samples)
    /\ eof = FALSE
    /\ seen = NoSeen
    /\ IdleRead

\* Event Byte
ReadEventByte ==
    /\ dec.pc = "event"
    /\ \E eventbite \in FullSlices(dec, hdr) \cup ShortSlices(dec, hdr) :
          /\ dec' = EventStep(dec, eventbite)
          /\ eof' = (Len(eventbite) < 1)
          /\ seen' = [NoSeen EXCEPT !.sam = dec.sam, !.evpos = dec.i,
                                    !.bad = seen.bad \/
                                            eventbite \notin {<<>>, <<0>>, <<1>>}]
    /\ UNCHANGED <<hdr, n_samples, readvars, filevars>>

\* Delta Information, file_schema 7
FakeDeltaMask ==
    /\ dec.pc = "mask"
    /\ hdr.file_schema = 7
    /\ dec' = FakeMaskStep(dec, hdr)
    /\ UNCHANGED <<hdr, n_samples, eof, seen, readvars, filevars>>

\* Delta Information, file_schema 8 and 9
ReadDeltaMask ==
    /\ dec.pc = "mask"
    /\ hdr.file_schema \in {8, 9}
    /\ \E bytes \in FullSlices(dec, hdr) \cup ShortSlices(dec, hdr) :
          /\ dec' = MaskStep(dec, hdr, bytes)
          /\ eof' = (Len(bytes) < Need(dec, hdr))
          /\ seen' = [seen EXCEPT !.maskbytes = bytes]
    /\ UNCHANGED <<hdr, n_samples, readvars, filevars>>

\* the delta field of channel i_c
ReadDelta ==
    /\ dec.pc = "delta"
    /\ \E val \in FullSlices(dec, hdr) \cup ShortSlices(dec, hdr) :
          /\ dec' = DeltaStep(dec, hdr, n_samples, val)
          /\ eof' = (Len(val) < Need(dec, hdr))
          /\ seen' = [seen EXCEPT !.valpos = Append(@, dec.i),
                                  !.vals = Append(@, val)]
    /\ UNCHANGED <<hdr, n_samples, readvars, filevars>>

\* the full value of a channel whose delta field was the sentinel
ReadAbs ==
    /\ dec.pc = "abs"
    /\ \E bytes \in FullSlices(dec, hdr) \cup ShortSlices(dec, hdr) :
          /\ dec' = AbsStep(dec, hdr, n_samples, bytes)
          /\ eof' = (Len(bytes) < Need(dec, hdr))
          /\ seen' = [seen EXCEPT !.absq =
                         Append(@, [i_c |-> dec.i_c, pos |-> dec.i, bytes |-> bytes])]
    /\ UNCHANGED <<hdr, n_samples, readvars, filevars>>

\* factor = _calculate_conversion(hdr); return ...
Return ==
    /\ dec.pc = "factor"
    /\ dec' = ReturnStep(dec, hdr)
    /\ UNCHANGED <<hdr, n_samples, eof, seen, readvars, filevars>>

NextDecode ==
    \/ ReadEventByte
    \/ FakeDeltaMask
    \/ ReadDeltaMask
    \/ ReadDelta
    \/ ReadAbs
    \/ Return

Spec == InitDecode /\ [][NextDecode]_vars

-----------------------------------------------------------------------------
(* _read_erd as a whole: the memmap file in temp_dir and the decode of a     *)
(* file on disk.  A file is [present, hdr, stream], stream being filebytes   *)
(* from the schema's start offset on.                                        *)

\* the element of a one-element set; Only({e(x) : x \in {v}}) is e(v) with v
\* evaluated once
Only(S) == CHOOSE x \in S : TRUE

\* filebytes[i:i + k]
Slice(f, i, k) ==
    LET o == i - StreamStart(f.hdr.file_schema)
        e == IF o + k < Len(f.stream) THEN o + k ELSE Len(f.stream)
    IN  IF o >= Len(f.stream) THEN <<>> ELSE SubSeq(f.stream, o + 1, e)

\* one step of the decode loop on the bytes of f
StepOn(d, f, ns) ==
    LET bytes == Slice(f, d.i, Need(d, f.hdr))
    IN  CASE d.pc = "event" -> EventStep(d, bytes)
          [] d.pc = "mask" -> IF f.hdr.file_schema = 7 THEN FakeMaskStep(d, f.hdr)
                              ELSE MaskStep(d, f.hdr, bytes)
          [] d.pc = "delta" -> DeltaStep(d, f.hdr, ns, bytes)
          [] d.pc = "abs" -> AbsStep(d, f.hdr, ns, bytes)
          [] OTHER -> d

\* for sam in range(n_samples): ... to the end of the loop or to an exception
RECURSIVE RunDecode(_, _, _)
RunDecode(d, f, ns) ==
    IF d.pc \in {"factor", "error", "returned"} THEN d
    ELSE Only({RunDecode(x, f, ns) : x \in {StepOn(d, f, ns)}})

\* the int32 cells of the memmap file, row after row
Flatten(output, n_chan, ns) ==
    [k \in 1..(n_chan * ns) |-> output[(k - 1) \div ns][(k - 1) % ns]]

\* memmap(memmap_file, mode='c', shape=(n_chan, n_samples), dtype=int32)
Reshape(cells, n_chan, ns) ==
    [c \in 0..(n_chan - 1) |-> [s \in 0..(ns - 1) |-> cells[c * ns + s + 1]]]

\* join(temp_dir, basename(erd_file)): the directory is dropped
memmap_file(dir, name) == name

\* (mutant) exists(memmap_file) never finds the file
NeverExists(tmp, key) == FALSE

\* exists(memmap_file)
Exists(tmp, key) == key \in DOMAIN tmp

\* the file created or replaced in temp_dir
WriteTemp(tmp, key, cells) ==
    [k \in DOMAIN tmp \cup {key} |-> IF k = key THEN cells ELSE tmp[k]]

\* _read_erd(erd_file, n_samples) on the file system fs and temp_dir tmp:
\* the outcome, the data returned, temp_dir afterwards and whether the
\* decode loop ran
read_erd(fs, tmp, dir, name, ns) ==
    LET f == fs[dir].erd[name]
        key == memmap_file(dir, name)
        n_chan == f.hdr.num_channels
    IN  IF ~f.present
        THEN [status |-> "IOError", dat_rec |-> <<>>, tmp |-> tmp, decoded |-> FALSE]
        ELSE IF Exists(tmp, key)
        THEN IF Len(tmp[key]) < n_chan * ns
             THEN [status |-> "ValueError", dat_rec |-> <<>>, tmp |-> tmp,
                   decoded |-> FALSE]
             ELSE LET r == ReturnStep([StartDecode(f.hdr, ns) EXCEPT
                                          !.output = Reshape(tmp[key], n_chan, ns)],
                                      f.hdr)
                  IN  [status |-> IF r.pc = "error" THEN r.err ELSE "ok",
                       dat_rec |-> r.result, tmp |-> tmp, decoded |-> FALSE]
        ELSE Only({[status |-> IF r.pc = "error" THEN r.err ELSE "ok",
                    dat_rec |-> r.result,
                    tmp |-> WriteTemp(tmp, key, Flatten(r.output, n_chan, ns)),
                    decoded |-> TRUE] :
                   r \in {IF d.pc = "error" THEN d ELSE ReturnStep(d, f.hdr) :
                             d \in {RunDecode(StartDecode(f.hdr, ns), f, ns)}}})

-----------------------------------------------------------------------------
(* Ktlx.return_dat *)

\* cumsum(all_samples)[k - 1], and 0 for k = 0
RECURSIVE SumTo(_, _)
SumTo(all_samples, k) ==
    IF k = 0 THEN 0 ELSE SumTo(all_samples, k - 1) + all_samples[k]

\* n_sam_rec = concatenate((array([0]), cumsum(all_samples))), indexed from 0
n_sam_rec(all_samples) ==
    [k \in 0..Len(all_samples) |-> SumTo(all_samples, k)]

\* where(...)[0][-1]: the last index of a nonempty set of indices
LastOf(S) == CHOOSE k \in S : \A j \in S : j <= k

\* (mutant) endrec with <= in place of <
EndSetInclusive(nsr, endsam) == {k \in DOMAIN nsr : nsr[k] <= endsam}

\* where(n_sam_rec <= begsam)[0]
BegSet(nsr, begsam) == {k \in DOMAIN nsr : nsr[k] <= begsam}

\* where(n_sam_rec < endsam)[0]
EndSet(nsr, endsam) == {k \in DOMAIN nsr : nsr[k] < endsam}

\* zeros((len(chan), endsam - begsam))
Zeros(n_rows, n_cols) == [j \in 0..(n_rows - 1) |-> [k \in 0..(n_cols - 1) |-> Zero]]

\* the indices of slice a:b of an axis of length n, for 0 <= a
SliceIdx(a, b, n) == {k \in 0..(n - 1) : a <= k /\ k < b}

\* for rec in range(begrec, endrec + 1): the rounds from rec on.  st is
\* [status, dat, tmp, d1, decoded, rounds], decoded the names whose decode
\* loop ran, rounds the slices of the assignments dat[:, d1:d2] = ... made.
RECURSIVE LoopRec(_, _, _, _)
LoopRec(fs, q, st, rec) ==
    LET all_stamp == fs[q.dir].stc
        all_samples == [k \in 1..Len(all_stamp) |-> all_stamp[k].sample_span]
        nsr == n_sam_rec(all_samples)
        begpos_rec == IF rec = q.begrec THEN q.begsam - nsr[rec] ELSE 0
    IN  IF rec > q.endrec THEN st
        ELSE IF rec >= Len(all_stamp)
        THEN [st EXCEPT !.status = "IndexError"]
        ELSE LET endpos_rec == IF rec = q.endrec THEN q.endsam - nsr[rec]
                               ELSE all_samples[rec + 1]
                 d2 == endpos_rec - begpos_rec + st.d1
                 name == all_stamp[rec + 1].segment_name
                 ns == all_samples[rec + 1]
                 r == read_erd(fs, st.tmp, q.dir, name, ns)
                 st1 == [st EXCEPT !.tmp = r.tmp,
                                   !.decoded = IF r.decoded THEN Append(@, name) ELSE @]
                 width == q.endsam - q.begsam
                 src == SliceIdx(begpos_rec, endpos_rec, ns)
                 dst == SliceIdx(st.d1, d2, width)
             IN  IF r.status # "ok" THEN [st1 EXCEPT !.status = r.status]
                 ELSE IF \E j \in 1..Len(q.chan) : q.chan[j] \notin DOMAIN r.dat_rec
                 THEN [st1 EXCEPT !.status = "IndexError"]
                 ELSE IF Cardinality(src) # Cardinality(dst)
                 THEN [st1 EXCEPT !.status = "ValueError"]
                 ELSE LoopRec(fs, q,
                        [st1 EXCEPT
                           !.dat = [j \in DOMAIN st.dat |->
                                      [k \in DOMAIN st.dat[j] |->
                                         IF k \in dst
                                         THEN r.dat_rec[q.chan[j + 1]][k - st.d1 + begpos_rec]
                                         ELSE st.dat[j][k]]],
                           !.d1 = d2,
                           !.rounds = Append(@, [rec |-> rec, d1 |-> st.d1, d2 |-> d2,
                                                 begpos_rec |-> begpos_rec,
                                                 endpos_rec |-> endpos_rec])],
                        rec + 1)

\* return_dat(chan, begsam, endsam) of the Ktlx object on directory dir
return_dat(fs, tmp, dir, chan, begsam, endsam) ==
    LET all_stamp == fs[dir].stc
        all_samples == [k \in 1..Len(all_stamp) |-> all_stamp[k].sample_span]
        nsr == n_sam_rec(all_samples)
        begset == BegSet(nsr, begsam)
        endset == EndSet(nsr, endsam)
        fail(e, b, n) == [status |-> e, dat |-> <<>>, tmp |-> tmp, decoded |-> <<>>,
                          begrec |-> b, endrec |-> n, rounds |-> <<>>]
    IN  IF begset = {} THEN fail("IndexError", -1, -1)
        ELSE IF endset = {} THEN fail("IndexError", LastOf(begset), -1)
        ELSE IF endsam - begsam < 0
        THEN fail("ValueError", LastOf(begset), LastOf(endset))
        ELSE LET q == [dir |-> dir, chan |-> chan, begsam |-> begsam,
                       endsam |-> endsam, begrec |-> LastOf(begset),
                       endrec |-> LastOf(endset)]
                 st == LoopRec(fs, q,
                               [status |-> "ok",
                                dat |-> Zeros(Len(chan), endsam - begsam),
                                tmp |-> tmp, d1 |-> 0, decoded |-> <<>>,
                                rounds |-> <<>>],
                               q.begrec)
             IN  [status |-> st.status,
                  dat |-> IF st.status = "ok" THEN st.dat ELSE <<>>,
                  tmp |-> st.tmp, decoded |-> st.decoded,
                  begrec |-> q.begrec, endrec |-> q.endrec, rounds |-> st.rounds]

-----------------------------------------------------------------------------
(* The recordings on disk *)

Dirs == {"P", "Q"}
Names == {"a", "b", "c"}
Paths == Dirs \X Names
ChanLists == {<<0>>, <<1, 0>>}

ErdHdr(schema, headbox) ==
    [file_schema |-> schema, num_channels |-> 2, headbox_type |-> headbox,
     discardbits |-> 0]

\* no such file
Absent == [present |-> FALSE, hdr |-> ErdHdr(7, 1), stream |-> <<>>]

\* schema 8, one sample: both channels in full, -100 and 2^31 - 1
ErdG1 ==
    [present |-> TRUE, hdr |-> ErdHdr(8, 1),
     stream |-> <<0, 3, 255, 255, 255, 255, 156, 255, 255, 255, 255, 255, 255, 127>>]

\* schema 7, one sample with the trigger flag: -2^31 and -100
ErdG2 ==
    [present |-> TRUE, hdr |-> ErdHdr(7, 1),
     stream |-> <<1, 128, 128, 0, 0, 0, 128, 156, 255, 255, 255>>]

\* ErdG1 cut inside the full value of channel 1
ErdT1 ==
    [present |-> TRUE, hdr |-> ErdHdr(8, 1),
     stream |-> <<0, 3, 255, 255, 255, 255, 156, 255, 255, 255, 255, 255>>]

\* schema 8, two samples: ErdG1's, then 1-byte deltas +1 and -1
ErdA2 ==
    [present |-> TRUE, hdr |-> ErdHdr(8, 1),
     stream |-> ErdG1.stream \o <<0, 0, 1, 255>>]

\* schema 7, two samples: 2^31 - 1 and -100 in full, then deltas +1 and -1
ErdC2 ==
    [present |-> TRUE, hdr |-> ErdHdr(7, 1),
     stream |-> <<0, 128, 128, 255, 255, 255, 127, 156, 255, 255, 255, 0, 1, 255>>]

\* what the model may find under the name a of the first recording
ErdFiles == {ErdG1, ErdG2, ErdT1, Absent}

Stamp(name, span) == [segment_name |-> name, sample_span |-> span]

\* two recordings that both hold a segment file named a
CacheDisks ==
    {[P |-> [stc |-> <<Stamp("a", 1), Stamp("b", 1)>>,
             erd |-> [n \in Names |-> IF n = "a" THEN pa ELSE IF n = "b" THEN pb
                                      ELSE Absent]],
      Q |-> [stc |-> <<Stamp("a", 2)>>,
             erd |-> [n \in Names |-> IF n = "a" THEN qa ELSE Absent]]]
        : pa \in ErdFiles, pb \in {ErdG2, Absent}, qa \in {ErdC2, Absent}}

\* a recording of three segments and a recording with an empty index
LocateDisk ==
    [P |-> [stc |-> <<Stamp("a", 2), Stamp("b", 1), Stamp("c", 2)>>,
            erd |-> [n \in Names |-> IF n = "a" THEN ErdA2 ELSE IF n = "b" THEN ErdG2
                                     ELSE ErdC2]],
     Q |-> [stc |-> <<>>, erd |-> [n \in Names |-> Absent]]]

Disks == CacheDisks \cup {LocateDisk}

\* the samples of a recording, by its index
Total(fs, dir) ==
    SumTo([k \in 1..Len(fs[dir].stc) |-> fs[dir].stc[k].sample_span], Len(fs[dir].stc))

Request(dir, chan, begsam, endsam) ==
    [dir |-> dir, chan |-> chan, begsam |-> begsam, endsam |-> endsam]

\* the calls the model makes: every range up to one sample past the end of
\* the recording, also the empty ranges and those with endsam = begsam - 1
Requests(fs) ==
    UNION {{Request(dir, chan, be[1], be[2]) :
               chan \in ChanLists,
               be \in {x \in (0..(Total(fs, dir) + 1)) \X (0..(Total(fs, dir) + 1)) :
                          x[2] >= x[1] - 1}}
           : dir \in Dirs}

\* the requests whose repetitions are compared: each recording in full, and
\* one range inside the first recording
ProbeRequests(fs) ==
    {Request(dir, <<1, 0>>, 0, Total(fs, dir)) : dir \in Dirs}
        \cup {Request("P", <<0>>, 1, 2)}

-----------------------------------------------------------------------------
(* Specification of a Ktlx reader per recording, called one call at a time  *)

IdleDecode ==
    /\ hdr = ErdHdr(7, 1)
    /\ n_samples = 0
    /\ dec = [pc |-> "idle"]
    /\ eof = FALSE
    /\ seen = NoSeen

InitRead ==
    /\ IdleDecode
    /\ disk \in Disks
    /\ temp = <<>>
    /\ ndecode = [p \in Paths |-> 0]
    /\ last = NoCall
    /\ probe \in ProbeRequests(disk)
    /\ probed = NoProbe
    /\ callers = <<>>
    /\ call = NoFileCall
    /\ ktlx = NoKtlx

\* how often name occurs in a sequence of names
Count(names, name) == Cardinality({k \in 1..Len(names) : names[k] = name})

\* one call of return_dat, from its first line to its return or exception.
\* ndecode counts the runs of the decode loop per segment file, last keeps
\* the call and its outcome, probed the matrix the probe call returned first.
ReturnDat ==
    /\ \A p \in Paths : ndecode[p] < MaxDecodes
    /\ \E q \in Requests(disk) :
          \E r \in {return_dat(disk, temp, q.dir, q.chan, q.begsam, q.endsam)} :
              /\ temp' = r.tmp
              /\ ndecode' = [p \in Paths |->
                                IF p[1] = q.dir THEN ndecode[p] + Count(r.decoded, p[2])
                                ELSE ndecode[p]]
              /\ last' = [dir |-> q.dir, chan |-> q.chan, begsam |-> q.begsam,
                          endsam |-> q.endsam, status |-> r.status, dat |-> r.dat,
                          begrec |-> r.begrec, endrec |-> r.endrec,
                          rounds |-> r.rounds]
              /\ probed' = IF q # probe THEN probed
                           ELSE IF probed.set THEN [probed EXCEPT !.again = TRUE]
                           ELSE IF r.status = "ok"
                           THEN [set |-> TRUE, dat |-> r.dat, again |-> FALSE]
                           ELSE probed
    /\ UNCHANGED <<disk, probe, callers, decvars, filevars>>

NextRead == ReturnDat

SpecRead == InitRead /\ [][NextRead]_vars

-----------------------------------------------------------------------------
(* Specification of _read_erd called side by side: the callers are threads  *)
(* or processes that read segments of the recording P; temp_dir is one      *)
(* fixed directory for all of them.  The code takes no lock, so the steps   *)
(* of the callers interleave freely.                                        *)

Callers == 1..2

NoLocals == [pc |-> "idle"]

\* a caller that has not called yet
IdleCaller ==
    [pc |-> "idle", name |-> "", ns |-> 0, mode |-> "", d |-> NoLocals,
     status |-> "", result |-> <<>>]

InitConc ==
    /\ IdleDecode
    /\ disk = LocateDisk
    /\ temp = <<>>
    /\ ndecode = [p \in Paths |-> 0]
    /\ last = NoCall
    /\ probe = NoCall
    /\ probed = NoProbe
    /\ callers = [t \in Callers |-> IdleCaller]
    /\ call = NoFileCall
    /\ ktlx = NoKtlx

\* the .erd file a caller reads
FileOf(c) == disk["P"].erd[c.name]

\* the cells of the memmap file as the (n_chan, n_samples) array mapped on it
Mapped(tmp, c) ==
    Reshape(tmp[memmap_file("P", c.name)], FileOf(c).hdr.num_channels, c.ns)

\* the call is entered and the header read: hdr = _read_hdr_file(erd_file)
ReadHdr(t) ==
    /\ callers[t].pc = "idle"
    /\ \E rec \in 1..Len(disk["P"].stc) :
          LET name == disk["P"].stc[rec].segment_name
          IN  callers' = [callers EXCEPT ![t] =
                  IF disk["P"].erd[name].present
                  THEN [@ EXCEPT !.pc = "exists", !.name = name,
                                 !.ns = disk["P"].stc[rec].sample_span]
                  ELSE [@ EXCEPT !.pc = "raised", !.name = name,
                                 !.status = "IOError"]]
    /\ UNCHANGED <<disk, temp, ndecode, last, probe, probed, decvars, filevars>>

\* if exists(memmap_file)
CheckExists(t) ==
    /\ callers[t].pc = "exists"
    /\ callers' = [callers EXCEPT ![t].pc =
                      IF Exists(temp, memmap_file("P", callers[t].name))
                      THEN "open_c" ELSE "open_w"]
    /\ UNCHANGED <<disk, temp, ndecode, last, probe, probed, decvars, filevars>>

\* output = memmap(memmap_file, mode='c', ...): the file as it is when read
OpenCopy(t) ==
    /\ callers[t].pc = "open_c"
    /\ LET c == callers[t]
       IN  callers' = [callers EXCEPT ![t] =
               IF Len(temp[memmap_file("P", c.name)])
                      < FileOf(c).hdr.num_channels * c.ns
               THEN [@ EXCEPT !.pc = "raised", !.status = "ValueError"]
               ELSE [@ EXCEPT !.pc = "factor", !.mode = "c"]]
    /\ UNCHANGED <<disk, temp, ndecode, last, probe, probed, decvars, filevars>>

\* output = memmap(memmap_file, mode='w+', ...): the file is created, or
\* replaced by zeros, and the for loop is entered
CreateWrite(t) ==
    /\ callers[t].pc = "open_w"
    /\ LET c == callers[t]
           h == FileOf(c).hdr
           d == StartDecode(h, c.ns)
       IN  /\ temp' = WriteTemp(temp, memmap_file("P", c.name),
                                Flatten(d.output, h.num_channels, c.ns))
           /\ callers' = [callers EXCEPT ![t] =
                             [@ EXCEPT !.pc = IF d.pc = "factor" THEN "factor"
                                              ELSE "decoding",
                                       !.mode = "w+", !.d = d]]
           /\ ndecode' = [ndecode EXCEPT ![<<"P", c.name>>] = @ + 1]
    /\ UNCHANGED <<disk, last, probe, probed, decvars, filevars>>

\* one step of the for loop; output is the shared mapping of the file
DecodeStep(t) ==
    /\ callers[t].pc = "decoding"
    /\ LET c == callers[t]
           h == FileOf(c).hdr
       IN  \E d \in {StepOn([c.d EXCEPT !.output = Mapped(temp, c)],
                            FileOf(c), c.ns)} :
              /\ temp' = WriteTemp(temp, memmap_file("P", c.name),
                                   Flatten(d.output, h.num_channels, c.ns))
              /\ callers' = [callers EXCEPT ![t] =
                                [@ EXCEPT !.pc = CASE d.pc = "error" -> "raised"
                                                   [] d.pc = "factor" -> "factor"
                                                   [] OTHER -> "decoding",
                                          !.status = d.err, !.d = d]]
    /\ UNCHANGED <<disk, ndecode, last, probe, probed, decvars, filevars>>

\* factor = _calculate_conversion(hdr); return expand_dims(factor, 1) * output
ConvertReturn(t) ==
    /\ callers[t].pc = "factor"
    /\ LET c == callers[t]
       IN  \E d \in {ReturnStep([StartDecode(FileOf(c).hdr, c.ns) EXCEPT
                                    !.output = Mapped(temp, c)],
                                FileOf(c).hdr)} :
              callers' = [callers EXCEPT ![t] =
                             IF d.pc = "error"
                             THEN [@ EXCEPT !.pc = "raised", !.status = d.err]
                             ELSE [@ EXCEPT !.pc = "returned", !.status = "ok",
                                            !.result = d.result]]
    /\ UNCHANGED <<disk, temp, ndecode, last, probe, probed, decvars, filevars>>

NextConc ==
    \E t \in Callers :
        \/ ReadHdr(t)
        \/ CheckExists(t)
        \/ OpenCopy(t)
        \/ CreateWrite(t)
        \/ DecodeStep(t)
        \/ ConvertReturn(t)

SpecConc == InitConc /\ [][NextConc]_vars


-----------------------------------------------------------------------------
(* Properties of the decode loop (checked under Spec) *)

\* the delta fields of the sample decoded last that were read in full
FieldsRead ==
    {k \in 1..Len(seen.vals) : k < Len(seen.vals) \/ seen.absq # <<>> \/ ~eof}

\* the sentinel of a schema, as the format states it
Sentinel(file_schema) == IF file_schema = 7 THEN <<128>> ELSE <<255, 255>>

\* a little-endian field of 1 or 2 bytes as a signed integer
SignedField(val) ==
    LET u == IF Len(val) = 2 THEN val[1] + 256 * val[2] ELSE val[1]
        top == IF Len(val) = 2 THEN 32768 ELSE 128
    IN  IF u >= top THEN u - 2 * top ELSE u

\* the 4-byte words of AbsWords and WideAbsWords as signed integers
Int32Of(bytes) ==
    CASE bytes = <<255, 255, 255, 127>> -> 2147483647
      [] bytes = <<156, 255, 255, 255>> -> -100
      [] bytes = <<0, 0, 0, 128>> -> -2147483647 - 1

\* p + d lies in the int32 range
SumFits(p, d) ==
    /\ d >= 0 => p <= MaxInt32 - d
    /\ d < 0 => p >= MinInt32 - d

\* p + d reduced to the int32 range, for |d| <= 2^15
Wrapped(p, d) ==
    IF SumFits(p, d) THEN p + d
    ELSE IF d > 0 THEN (p - MaxInt32 - 1) + (d + MinInt32)
    ELSE (p - MinInt32) + (d + MaxInt32) + 1

\* C1: once a control byte other than 0x00 and 0x01 was read, the decode has
\* failed: it does not go on to the mask, the deltas or the return.
C1_BadEventByteFails == seen.bad => dec.pc = "error"

\* C2: a channel flagged absolute holds exactly the 4-byte signed integer read
\* for it, whatever the previous sample's value was.
C2_AbsoluteIsAssigned ==
    \A j \in 1..Len(seen.absq) :
        Len(seen.absq[j].bytes) = 4 =>
            dec.output[seen.absq[j].i_c][seen.sam] = Int32Of(seen.absq[j].bytes)

\* C2 witness: a channel read in full at a later sample, its previous value
\* neither zero nor the value assigned.
C2_Witness ==
    /\ seen.sam >= 1
    /\ \E j \in 1..Len(seen.absq) :
          LET c == seen.absq[j].i_c
          IN  /\ Len(seen.absq[j].bytes) = 4
              /\ dec.output[c][seen.sam - 1] # 0
              /\ dec.output[c][seen.sam - 1] # dec.output[c][seen.sam]

\* C3 as stated: a channel not flagged absolute holds the preceding sample's
\* value plus the signed delta, as integers.
C3_DeltaIsExactSum ==
    \A k \in FieldsRead :
        (seen.sam >= 1 /\ seen.vals[k] # Sentinel(hdr.file_schema)) =>
            /\ SumFits(dec.output[k - 1][seen.sam - 1], SignedField(seen.vals[k]))
            /\ dec.output[k - 1][seen.sam] =
                  dec.output[k - 1][seen.sam - 1] + SignedField(seen.vals[k])

\* C3 amended: the sum is reduced to the int32 range of the output matrix;
\* at the first sample the delta is added to the zero of the new matrix.
C3_DeltaIsWrappedSum ==
    \A k \in FieldsRead :
        seen.vals[k] # Sentinel(hdr.file_schema) =>
            dec.output[k - 1][seen.sam] =
                IF seen.sam >= 1
                THEN Wrapped(dec.output[k - 1][seen.sam - 1], SignedField(seen.vals[k]))
                ELSE SignedField(seen.vals[k])

\* C3 witness: a 2-byte negative delta added to a nonzero previous value
C3_Witness ==
    /\ seen.sam >= 1
    /\ \E k \in FieldsRead :
          /\ seen.vals[k] = <<0, 128>>
          /\ dec.output[k - 1][seen.sam - 1] = -100
          /\ dec.output[k - 1][seen.sam] = -32868

\* bit j of a byte, counted from the least significant
BitOf(x, j) == (x \div (2 ^ j)) % 2

\* the least k with 8 * k >= n
CeilDiv8(n) == CHOOSE k \in 0..n : 8 * k >= n /\ 8 * (k - 1) < n

SentinelChans == {k - 1 : k \in {j \in FieldsRead : seen.vals[j] = Sentinel(hdr.file_schema)}}

\* C5: a channel is flagged iff its raw field equals the sentinel, for either
\* width; the full values come after all delta fields, one per flagged
\* channel, in channel order.
C5_SentinelAndOrder ==
    /\ \A k \in FieldsRead :
          dec.absvalue[k - 1] <=> seen.vals[k] = Sentinel(hdr.file_schema)
    /\ seen.absq # <<>> => Len(seen.vals) = hdr.num_channels
    /\ \A j \in 1..Len(seen.absq) :
          /\ seen.absq[j].i_c \in SentinelChans
          /\ Cardinality({c \in SentinelChans : c < seen.absq[j].i_c}) = j - 1
          /\ seen.absq[j].pos =
                seen.valpos[hdr.num_channels] + Len(seen.vals[hdr.num_channels])
                    + 4 * (j - 1)
    /\ (dec.pc \in {"event", "factor", "returned"} /\ dec.sam = seen.sam + 1) =>
          Len(seen.absq) = Cardinality(SentinelChans)

\* C5 witness: schema 8, channel 0 with a 1-byte field 0xFF (not flagged),
\* channel 1 flagged and read in full
C5_Witness ==
    /\ hdr.file_schema = 8
    /\ hdr.num_channels = 2
    /\ Len(seen.vals) = 2
    /\ seen.vals[1] = <<255>>
    /\ seen.vals[2] = <<255, 255>>
    /\ Len(seen.absq) = 1
    /\ dec.sam = seen.sam + 1

\* C6: a stream that ends before n_samples samples were decoded never makes
\* the decode raise, wherever the end falls.
C6_TruncationNeverRaises == eof => dec.err # "struct.error"

-----------------------------------------------------------------------------
(* Properties of return_dat and the memmap files (checked under SpecRead) *)

\* the request of the call made last
LastRequest == Request(last.dir, last.chan, last.begsam, last.endsam)

C9_CacheKeyedByPath ==
    last.status = "ok" =>
        \A fresh \in {return_dat(disk, <<>>, last.dir, last.chan,
                                 last.begsam, last.endsam)} :
            fresh.status = "ok" => last.dat = fresh.dat

\* the count of samples preceding index entry k, entries counted from 0
RECURSIVE Preceding(_, _)
Preceding(all_stamp, k) ==
    IF k = 0 THEN 0
    ELSE Preceding(all_stamp, k - 1) + all_stamp[k].sample_span

\* the rightmost of a nonempty set of entries
Rightmost(S) == CHOOSE k \in S : \A j \in S : k >= j

-----------------------------------------------------------------------------
(* Properties of _read_erd called side by side (checked under SpecConc) *)

\* C8: of the callers that ask for the same segment, at most one is inside
\* the decode loop at any time, no caller maps the memmap file for reading
\* while another is still filling it, each segment is decoded once, and the
\* callers that return hold the same matrix.
C8_SingleDecodeInFlight ==
    /\ \A p \in Paths : ndecode[p] <= 1
    /\ \A t \in Callers : \A u \in Callers \ {t} :
          callers[t].name = callers[u].name =>
              /\ ~(callers[t].pc = "decoding" /\ callers[u].pc = "decoding")
              /\ ~(callers[t].pc = "decoding"
                      /\ callers[u].pc = "factor" /\ callers[u].mode = "c")
              /\ (callers[t].pc = "returned" /\ callers[u].pc = "returned") =>
                    callers[t].result = callers[u].result

-----------------------------------------------------------------------------
(* Properties of the matrix return_dat assembles (checked under SpecRead) *)

\* the index entry that holds global sample g
EntryOf(all_stamp, g) ==
    Rightmost({k \in 0..(Len(all_stamp) - 1) : Preceding(all_stamp, k) <= g})

\* the segment of index entry k decoded by itself, with temp_dir empty
FreshSegment(dir, k) ==
    read_erd(disk, <<>>, dir, disk[dir].stc[k + 1].segment_name,
             disk[dir].stc[k + 1].sample_span)

\* the last call asked for a range begsam < endsam inside the recording
\* whose segment files are all on disk
InsideRecording ==
    /\ last.status # "none"
    /\ last.begsam < last.endsam
    /\ last.endsam <= Preceding(disk[last.dir].stc, Len(disk[last.dir].stc))
    /\ \A g \in last.begsam..(last.endsam - 1) :
          disk[last.dir].erd[disk[last.dir].stc[EntryOf(disk[last.dir].stc, g) + 1]
                                 .segment_name].present

\* C11: for a range begsam < endsam inside the recording, return_dat returns
\* a matrix of len(chan) rows and endsam - begsam columns whose entry (j, k)
\* is the decoded value of channel chan[j] at global sample begsam + k; the
\* column ranges d1:d2 written for the covered segments start at 0, follow
\* one another without gap or overlap and end at endsam - begsam, and only
\* the first and the last covered segment are sliced partially.
C11_ReadAssemblesRange ==
    InsideRecording =>
        LET all_stamp == disk[last.dir].stc
            width == last.endsam - last.begsam
            first == EntryOf(all_stamp, last.begsam)
            final == EntryOf(all_stamp, last.endsam - 1)
            n == Len(last.rounds)
        IN  /\ last.status = "ok"
            /\ DOMAIN last.dat = 0..(Len(last.chan) - 1)
            /\ \A j \in 0..(Len(last.chan) - 1) :
                  /\ DOMAIN last.dat[j] = 0..(width - 1)
                  /\ \A k \in 0..(width - 1) :
                        LET rec == EntryOf(all_stamp, last.begsam + k)
                            seg == FreshSegment(last.dir, rec)
                        IN  /\ seg.status = "ok"
                            /\ last.dat[j][k] =
                                  seg.dat_rec[last.chan[j + 1]]
                                             [last.begsam + k - Preceding(all_stamp, rec)]
            /\ n = final - first + 1
            /\ last.rounds[1].d1 = 0
            /\ last.rounds[n].d2 = width
            /\ \A r \in 1..n :
                  /\ last.rounds[r].rec = first + r - 1
                  /\ last.rounds[r].d1 < last.rounds[r].d2
                  /\ r < n => last.rounds[r + 1].d1 = last.rounds[r].d2
                  /\ r > 1 => last.rounds[r].begpos_rec = 0
                  /\ r < n => last.rounds[r].endpos_rec
                                 = all_stamp[first + r].sample_span

\* the last call asked for a range begsam < endsam inside the index that
\* covers a segment whose .erd file is not on disk
CoversAbsent ==
    /\ last.status # "none"
    /\ last.begsam < last.endsam
    /\ last.endsam <= Preceding(disk[last.dir].stc, Len(disk[last.dir].stc))
    /\ \E g \in last.begsam..(last.endsam - 1) :
          ~disk[last.dir].erd[disk[last.dir].stc[EntryOf(disk[last.dir].stc, g) + 1]
                                  .segment_name].present

\* C12: a call whose range covers a segment whose .erd file is absent raises
\* and returns no matrix, and the call of the same reader that follows it,
\* if its range is covered only by segments whose files are present, returns.
C12_AbsentSegmentFails ==
    [][/\ CoversAbsent' => (last'.status # "ok" /\ last'.dat = <<>>)
       /\ (CoversAbsent /\ InsideRecording' /\ last'.dir = last.dir) =>
             last'.status = "ok"]_vars

-----------------------------------------------------------------------------
(* _read_hdr_file: the header at the start of a KTLX file.  A file is        *)
(* [present, schema, base, cut, num_channels, headbox_type, discardbits]:    *)
(* schema and base are the bytes found at offsets 16 and 18, cut tells that  *)
(* the file ends inside the fields that follow them.                         *)

\* unpack('H', val)[0] of the two bytes read
unpack_ushort(val) == val[1] + 256 * val[2]

\* (mutant) every schema version passes
AnySchema(file_schema) == TRUE

\* assert hdr['file_schema'] in (1, 7, 8, 9)
SchemaAccepted(file_schema) == file_schema \in {1, 7, 8, 9}

\* assert hdr['base_schema'] == 1
BaseSchemaAccepted(base_schema) == base_schema = 1

\* the call raises e and returns nothing
Failed(e) == [status |-> e, result |-> <<>>]

\* the fields every schema has
CommonFields(f) ==
    [file_schema |-> unpack_ushort(f.schema), base_schema |-> unpack_ushort(f.base)]

\* if hdr['file_schema'] >= 7
Schema7Fields(f) ==
    [file_schema |-> unpack_ushort(f.schema), base_schema |-> unpack_ushort(f.base),
     num_channels |-> f.num_channels, headbox_type |-> f.headbox_type,
     discardbits |-> f.discardbits]

\* if hdr['file_schema'] >= 8
Schema8Fields(f) ==
    [file_schema |-> unpack_ushort(f.schema), base_schema |-> unpack_ushort(f.base),
     num_channels |-> f.num_channels, headbox_type |-> f.headbox_type,
     discardbits |-> f.discardbits, shorted |-> "table", frequency_factor |-> "table"]

read_hdr_file(f) ==
    IF ~f.present THEN Failed("IOError")
    ELSE IF Len(f.schema) # 2 THEN Failed("struct.error")
    ELSE IF ~SchemaAccepted(unpack_ushort(f.schema)) THEN Failed("NotImplementedError")
    ELSE IF Len(f.base) # 2 THEN Failed("struct.error")
    ELSE IF ~BaseSchemaAccepted(unpack_ushort(f.base)) THEN Failed("NotImplementedError")
    ELSE IF f.cut THEN Failed("struct.error")
    ELSE [status |-> "ok",
          result |-> IF unpack_ushort(f.schema) >= 8 THEN Schema8Fields(f)
                     ELSE IF unpack_ushort(f.schema) >= 7 THEN Schema7Fields(f)
                     ELSE CommonFields(f)]

SchemaWords ==
    {<<0, 0>>, <<1, 0>>, <<7, 0>>, <<8, 0>>, <<9, 0>>, <<10, 0>>, <<7, 1>>,
     <<255, 255>>, <<7>>}
BaseWords == {<<1, 0>>, <<0, 0>>, <<2, 0>>, <<1, 1>>, <<1>>}

HdrFiles ==
    [present : BOOLEAN, schema : SchemaWords, base : BaseWords, cut : BOOLEAN,
     num_channels : {2}, headbox_type : {1, 99}, discardbits : {0}]

\* one call of a function, with its argument and outcome
Called(fn, arg, r) == [fn |-> fn, arg |-> arg, status |-> r.status, result |-> r.result]

ReadHdrFile ==
    /\ \E f \in HdrFiles : call' = Called("_read_hdr_file", f, read_hdr_file(f))
    /\ UNCHANGED <<ktlx, decvars, readvars>>

-----------------------------------------------------------------------------
(* _calculate_conversion called on a header *)

ConversionHeadboxTypes == {1, 3, 4, 21, 22, 99}
ConversionChanCounts == {1, 2, 24, 28, 29, 43, 44, 256, 257}

\* the fields of the header that _calculate_conversion reads
ConversionHdrs ==
    [num_channels : ConversionChanCounts, headbox_type : ConversionHeadboxTypes,
     discardbits : {0, 1}]

CalculateConversion ==
    /\ \E h \in ConversionHdrs :
          call' = Called("_calculate_conversion", h,
                         IF SupportedHeadbox(h.headbox_type)
                         THEN [status |-> "ok", result |-> calculate_conversion(h)]
                         ELSE Failed("NotImplementedError"))
    /\ UNCHANGED <<ktlx, decvars, readvars>>


-----------------------------------------------------------------------------
(* _read_vtc: the video index.  The file is its records after byte 20; a     *)
(* record is [marker, cut]: the bytes found where the 16-byte marker is      *)
(* expected, and where the file ends inside the record ("none": it is whole).*)

\* correct = b'\xff\xfe\xf8^\xfc\xdc\xe5D\x8f\xae\x19\xf5\xd6"\xb6\xd4'
correct == <<255, 254, 248, 94, 252, 220, 229, 68, 143, 174, 25, 245, 214, 34, 182, 212>>

\* a marker that differs from correct in its last byte
OtherMarker == <<255, 254, 248, 94, 252, 220, 229, 68, 143, 174, 25, 245, 214, 34, 182, 213>>

\* filebytes[i:i + 16] of the record
Location(rec) ==
    IF rec.cut = "name" THEN <<>>
    ELSE IF rec.cut = "marker" THEN SubSeq(rec.marker, 1, 15)
    ELSE rec.marker

\* (mutant) the marker is not compared
LocationUnchecked(loc) == TRUE

\* assert Location == correct
LocationAccepted(loc) == loc = correct

\* the rounds of the while loop from record k on, vtc the list built so far
RECURSIVE ReadVtcFrom(_, _, _)
ReadVtcFrom(f, k, vtc) ==
    IF k > Len(f) THEN [status |-> "ok", result |-> vtc]
    ELSE IF f[k].cut = "name" THEN Failed("struct.error")
    ELSE IF ~LocationAccepted(Location(f[k])) THEN Failed("AssertionError")
    ELSE IF f[k].cut = "times" THEN Failed("struct.error")
    ELSE ReadVtcFrom(f, k + 1,
                     Append(vtc, [MpgFileName |-> k, StartTime |-> k, EndTime |-> k]))

read_vtc(f) == ReadVtcFrom(f, 1, <<>>)

VtcRecords == [marker : {correct, OtherMarker}, cut : {"none", "name", "marker", "times"}]

\* the files of up to MaxRecs records; only the last record can be cut
VtcFiles ==
    {f \in UNION {SeqsOf(VtcRecords, n) : n \in 0..MaxRecs} :
        \A k \in 1..(Len(f) - 1) : f[k].cut = "none"}

ReadVtc ==
    /\ \E f \in VtcFiles : call' = Called("_read_vtc", f, read_vtc(f))
    /\ UNCHANGED <<ktlx, decvars, readvars>>


-----------------------------------------------------------------------------
(* _read_ent: the notes file.  A file is [present, notes, terminated]: the   *)
(* payloads of its records of nonzero type, and whether a record of type 0   *)
(* ends it.  The chain of replace/sub calls and eval() is not computed in    *)
(* the model: a payload is one of seven texts, and for each the record states  *)
(* what the code makes of it -- whether s.decode('utf-8') returns, whether   *)
(* eval(s1) returns and what kind of value, and whether the raw text holds   *)
(* a ChanNames(...) marker.                                                  *)

\* (.(."Text", "hello"), (."Stamp", 10), (."Data", (.(."User", "tech"))))
\* s1 = {"Text" : "hello", "Stamp" : 10, "Data" : {"User" : "tech"}}
PayloadNote ==
    [id |-> "note", utf8 |-> TRUE, evaluates |-> TRUE, kind |-> "dict",
     keys |-> {"Text", "Stamp", "Data"}, marker |-> FALSE, names |-> <<>>]

\* (."Montage", (."ChanNames", ("C3", "C4")), (."Text", "x"))
\* s1 = "Montage" : "ChanNames" : ["C3", "C4"], "Text" : "x"}   SyntaxError
PayloadMontage ==
    [id |-> "montage", utf8 |-> TRUE, evaluates |-> FALSE, kind |-> "str",
     keys |-> {}, marker |-> TRUE, names |-> <<"C3", "C4">>]

\* (.(."ChanNames", ("C3","C4")), (."Text", "x"))
\* s1 = {"ChanNames" : ["C3","C4"], "Text" : "x"}
PayloadChanDict ==
    [id |-> "chandict", utf8 |-> TRUE, evaluates |-> TRUE, kind |-> "dict",
     keys |-> {"ChanNames", "Text"}, marker |-> TRUE, names |-> <<"C3", "C4">>]

\* (.(."ChanNames", ("F3","F4")), (."Text", "x"), (."Stamp", 10),
\*  (."Data", (.(."User", "tech"))))
\* s1 = {"ChanNames" : ["F3","F4"], "Text" : "x", "Stamp" : 10,
\*       "Data" : {"User" : "tech"}}
PayloadChanNote ==
    [id |-> "channote", utf8 |-> TRUE, evaluates |-> TRUE, kind |-> "dict",
     keys |-> {"ChanNames", "Text", "Stamp", "Data"}, marker |-> TRUE,
     names |-> <<"F3", "F4">>]

\* free text                        s1 = free text   SyntaxError
PayloadText ==
    [id |-> "text", utf8 |-> TRUE, evaluates |-> FALSE, kind |-> "str",
     keys |-> {}, marker |-> FALSE, names |-> <<>>]

\* ("C3","C4")                      s1 = ["C3","C4"]
PayloadList ==
    [id |-> "list", utf8 |-> TRUE, evaluates |-> TRUE, kind |-> "list",
     keys |-> {}, marker |-> FALSE, names |-> <<>>]

\* the bytes 63 61 66 E9 (Latin-1 text): not UTF-8
PayloadLatin1 ==
    [id |-> "latin1", utf8 |-> FALSE, evaluates |-> FALSE, kind |-> "str",
     keys |-> {}, marker |-> FALSE, names |-> <<>>]

Payloads ==
    {PayloadNote, PayloadMontage, PayloadChanDict, PayloadChanNote, PayloadText,
     PayloadList, PayloadLatin1}

\* try: note['value'] = eval(s1)
\* except: note['value'] = s
NoteValue(p) ==
    IF p.evaluates THEN [kind |-> p.kind, of |-> p.id, keys |-> p.keys]
    ELSE [kind |-> "str", of |-> p.id, keys |-> {}]

\* the rounds of the while loop from record k on
RECURSIVE ReadEntFrom(_, _, _)
ReadEntFrom(f, k, allnote) ==
    IF k > Len(f.notes)
    THEN (IF f.terminated THEN [status |-> "ok", result |-> allnote]
          ELSE Failed("struct.error"))
    ELSE IF ~f.notes[k].utf8 THEN Failed("UnicodeDecodeError")
    ELSE ReadEntFrom(f, k + 1,
                     Append(allnote, [type |-> 1, value |-> NoteValue(f.notes[k])]))

read_ent(f) ==
    IF ~f.present THEN Failed("IOError") ELSE ReadEntFrom(f, 1, <<>>)

NoEntFile == [present |-> FALSE, notes |-> <<>>, terminated |-> FALSE]

\* the notes files of up to MaxNotes records
EntFiles ==
    {NoEntFile} \cup
    [present : {TRUE}, notes : UNION {SeqsOf(Payloads, n) : n \in 0..MaxNotes},
     terminated : BOOLEAN]

ReadEnt ==
    /\ \E f \in EntFiles : call' = Called("_read_ent", f, read_ent(f))
    /\ UNCHANGED <<ktlx, decvars, readvars>>


-----------------------------------------------------------------------------
(* math(data, operator, operator_name) of wonambi.trans.math, with axis     *)
(* left None.  Data is the tuple of its trials, a trial a tuple of numbers; *)
(* a Python value is a record with its type.                                *)

None == [type |-> "None"]
Function(name) == [type |-> "function", name |-> name]
Str(value) == [type |-> "str", value |-> value]
Tuple(items) == [type |-> "tuple", items |-> items]

\* the functions of one argument that the module imports from numpy
Apply(name, x) ==
    IF name = "square" THEN x * x
    ELSE IF x < 0 THEN -x ELSE x

NumpyNames == {"square", "absolute"}

\* (mutant) the two parameters are not compared
NeverExclusive(operator, operator_name) == FALSE

\* if operator is not None and operator_name is not None
MutuallyExclusive(operator, operator_name) == operator # None /\ operator_name # None

\* the call raises e after `applied` assignments to output.data[i]
MathRaised(e, applied) == [status |-> e, result |-> <<>>, applied |-> applied]

\* if isinstance(operator_name, str): operator_name = (operator_name, )
NamesOf(operator_name) ==
    IF operator_name.type = "str" THEN <<operator_name.value>> ELSE operator_name.items

\* if callable(operator): operator = (operator, )
OperatorsOf(operator) ==
    IF operator.type = "function" THEN <<operator>> ELSE operator.items

\* for op in operations: for i in range(output.number_of('trial')):
\*     output.data[i] = func(x)
RECURSIVE RunOperations(_, _, _, _)
RunOperations(operations, k, output, applied) ==
    IF k > Len(operations)
    THEN [status |-> "ok", result |-> output, applied |-> applied]
    ELSE RunOperations(operations, k + 1,
                       [i \in 1..Len(output) |->
                           [j \in 1..Len(output[i]) |->
                               Apply(operations[k].name, output[i][j])]],
                       applied + Len(output))

math(data, operator, operator_name) ==
    IF MutuallyExclusive(operator, operator_name) THEN MathRaised("TypeError", 0)
    ELSE IF operator_name # None
    THEN (IF \E k \in 1..Len(NamesOf(operator_name)) :
                 NamesOf(operator_name)[k] \notin NumpyNames
          THEN MathRaised("NameError", 0)
          ELSE RunOperations([k \in 1..Len(NamesOf(operator_name)) |->
                                 Function(NamesOf(operator_name)[k])],
                             1, data, 0))
    ELSE IF operator = None THEN MathRaised("TypeError", 0)
    ELSE RunOperations(OperatorsOf(operator), 1, data, 0)

MathData == {<< <<-2, 3>> >>, << <<1>>, <<-1>> >>}
MathOperators ==
    {None, Function("square"), Function("absolute"),
     Tuple(<<Function("square"), Function("absolute")>>), Tuple(<<>>)}
MathOperatorNames ==
    {None, Str("square"), Str("absolute"), Str("cube"),
     Tuple(<<"absolute", "square">>)}

Math ==
    /\ \E data \in MathData, operator \in MathOperators,
          operator_name \in MathOperatorNames :
          \E r \in {math(data, operator, operator_name)} :
              call' = [fn |-> "math",
                       arg |-> [data |-> data, operator |-> operator,
                                operator_name |-> operator_name],
                       status |-> r.status, result |-> r.result,
                       applied |-> r.applied]
    /\ UNCHANGED <<ktlx, decvars, readvars>>


-----------------------------------------------------------------------------
(* The Ktlx object: Ktlx.__init__ keeps the directory name and the header   *)
(* {'erd': ..., 'stamps': ...}; return_hdr reads the notes (.ent, else      *)
(* .ent.old), the sync (.snc) and the video index (.vtc) of the directory.  *)
(* A dict key that was never assigned is NoKey.                             *)

NoKey == [key |-> FALSE]
Key(v) == [key |-> TRUE, value |-> v]

\* the payload a note value was made from
PayloadOf(id) == CHOOSE p \in Payloads : p.id = id

\* chan_name[:n]
Take(s, n) == IF Len(s) <= n THEN s ELSE SubSeq(s, 1, n)

\* int(): the quotient n / d cut towards zero, d > 0
IntOf(n, d) == IF n >= 0 THEN n \div d ELSE -((-n) \div d)

\* _find_channels(note): note.index('ChanNames') and the two index calls
\* after it work on the raw text only; a dict has no index method, a list
\* and a text without the marker do not contain it
find_channels(v) ==
    IF v.kind = "dict" THEN Failed("AttributeError")
    ELSE IF v.kind = "list" THEN Failed("ValueError")
    ELSE IF ~PayloadOf(v.of).marker THEN Failed("ValueError")
    ELSE [status |-> "ok", result |-> PayloadOf(v.of).names]

\* for ent_note in ent_notes: try ... except: continue; else: break
\* chan_name stays unbound when no note gives a list
RECURSIVE ChanNameLoop(_, _, _)
ChanNameLoop(ent_notes, k, num_channels) ==
    IF k > Len(ent_notes) THEN [bound |-> FALSE, names |-> <<>>]
    ELSE IF find_channels(ent_notes[k].value).status = "ok"
    THEN [bound |-> TRUE,
          names |-> Take(find_channels(ent_notes[k].value).result, num_channels)]
    ELSE ChanNameLoop(ent_notes, k + 1, num_channels)

\* ['chan{0:03}'.format(x) for x in range(orig['num_channels'])]
FakeChanName(num_channels) == [k \in 1..num_channels |-> <<"chan", k - 1>>]

\* .ent, and .ent.old if there is no .ent
EntFileOf(d) == IF d.ent.present THEN d.ent ELSE d.ent_old

\* the loop of _read_notes over the dict notes from k on.  The dict
\* payloads of the model have a nonempty Text other than 'Analyzed Data
\* Note', and those with Data and Stamp have the user 'tech' and the stamp 10
RECURSIVE NotesFrom(_, _, _, _)
NotesFrom(allnote, k, erd, s) ==
    IF k > Len(allnote) THEN [status |-> "ok", result |-> s]
    ELSE IF "Text" \notin allnote[k].keys THEN Failed("KeyError")
    ELSE IF "Data" \notin allnote[k].keys THEN Failed("KeyError")
    ELSE IF "Stamp" \notin allnote[k].keys THEN Failed("KeyError")
    ELSE NotesFrom(allnote, k + 1, erd,
                   Append(s, [time |-> erd.creation_time + IntOf(10, erd.sample_freq),
                              name |-> "tech", note |-> allnote[k].of]))

\* the values of the notes that have a keys method
DictNotes(ent_notes) ==
    LET RECURSIVE Keep(_)
        Keep(k) == IF k = 0 THEN <<>>
                   ELSE IF ent_notes[k].value.kind = "dict"
                   THEN Append(Keep(k - 1), ent_notes[k].value)
                   ELSE Keep(k - 1)
    IN  Keep(Len(ent_notes))

\* Ktlx._read_notes
read_notes(k, d) ==
    IF read_ent(EntFileOf(d)).status # "ok" THEN Failed(read_ent(EntFileOf(d)).status)
    ELSE NotesFrom(DictNotes(read_ent(EntFileOf(d)).result), 1, k.hdr.erd, <<>>)

\* _read_snc: the pairs after the 352-byte header
read_snc(f) ==
    IF ~f.present THEN Failed("IOError")
    ELSE IF f.cut THEN Failed("struct.error")
    ELSE [status |-> "ok", result |-> f.stamps]

\* the recordings of the model start at stamp 0
start_stamp(stamp) == 0

\* Ktlx._read_movies: s_freq is kept as the pair of its numerator and
\* denominator
read_movies(k, d) ==
    LET snc == read_snc(d.snc)
        vtc == IF d.vtc.present THEN read_vtc(d.vtc.recs) ELSE Failed("IOError")
        first == snc.result[1]
        final == snc.result[Len(snc.result)]
        num == final.sampleStamp - first.sampleStamp
        den == final.sampleTime - first.sampleTime
    IN  IF snc.status # "ok" THEN Failed(snc.status)
        ELSE IF vtc.status # "ok" THEN Failed(vtc.status)
        ELSE IF Len(snc.result) = 0 THEN Failed("IndexError")
        ELSE IF den = 0 THEN Failed("ZeroDivisionError")
        ELSE IF Len(vtc.result) > 0 /\ Len(k.hdr.stamps) = 0 THEN Failed("IndexError")
        ELSE [status |-> "ok",
              result |->
                [movies |->
                    [j \in 1..Len(vtc.result) |->
                        [filename |-> <<k.filename, vtc.result[j].MpgFileName>>,
                         start_sample |->
                            IntOf((vtc.result[j].StartTime - first.sampleTime) * num
                                      - start_stamp(k.hdr.stamps[1]) * den, den),
                         end_sample |->
                            IntOf((vtc.result[j].EndTime - first.sampleTime) * num
                                      - start_stamp(k.hdr.stamps[1]) * den, den)]],
                 s_freq |-> <<num, den>>]]

\* the notes are a text, kept as the tuple of its lines: the lines that
\* _read_notes joins are [time, name, note], the line of the placeholder
\* 'could not find .ent file' is [text]
CouldNotFind == <<[text |-> "could not find .ent file"]>>

\* Ktlx.return_hdr on the object k with the directory d.  orig is the
\* stored header itself (orig = self._hdr['erd']), so erd in the outcome
\* is what the object holds when the call ends, by return or by exception.
return_hdr(k, d) ==
    LET orig == k.hdr.erd
        subj_id == IF orig.patient_id # "" THEN <<orig.patient_id>>
                   ELSE <<orig.pat_first_name, orig.pat_middle_name,
                          orig.pat_last_name>>
        ent == read_ent(EntFileOf(d))
        chan_name == IF ent.status = "IOError"
                     THEN [bound |-> TRUE, names |-> FakeChanName(orig.num_channels)]
                     ELSE ChanNameLoop(ent.result, 1, orig.num_channels)
        notes == read_notes(k, d)
        orig1 == IF notes.status = "ok" THEN [orig EXCEPT !.notes = Key(notes.result)]
                 ELSE [orig EXCEPT !.notes = Key(CouldNotFind)]
        movies == read_movies(k, d)
        orig2 == IF movies.status = "ok"
                 THEN [orig1 EXCEPT !.movies = Key(movies.result.movies),
                                    !.movie_s_freq = Key(movies.result.s_freq)]
                 ELSE [orig1 EXCEPT !.notes = Key(CouldNotFind)]
        raised(e, erd) == [status |-> e, result |-> <<>>, erd |-> erd]
    IN  IF ent.status \notin {"ok", "IOError"} THEN raised(ent.status, orig)
        ELSE IF notes.status \notin {"ok", "IOError"} THEN raised(notes.status, orig)
        ELSE IF movies.status \notin {"ok", "IOError"} THEN raised(movies.status, orig1)
        ELSE IF ~chan_name.bound THEN raised("UnboundLocalError", orig2)
        ELSE [status |-> "ok",
              result |-> [subj_id |-> subj_id, start_time |-> orig.creation_time,
                          s_freq |-> orig.sample_freq, chan_name |-> chan_name.names,
                          n_samples |-> SumTo([j \in 1..Len(k.hdr.stamps) |->
                                                  k.hdr.stamps[j].sample_span],
                                              Len(k.hdr.stamps)),
                          orig |-> orig2],
              erd |-> orig2]

\* the header _read_hdr_dir makes of the .erd of the recording
KtlxErd ==
    [file_schema |-> 8, patient_id |-> "S1", pat_first_name |-> "Ann",
     pat_middle_name |-> "", pat_last_name |-> "Lee", creation_time |-> 100,
     sample_freq |-> 1, num_channels |-> 2, headbox_type |-> 1, discardbits |-> 0,
     notes |-> NoKey, movies |-> NoKey, movie_s_freq |-> NoKey]

\* Ktlx(filename): the object after __init__
Ktlx(filename, d) ==
    [filename |-> filename, hdr |-> [erd |-> KtlxErd, stamps |-> d.stc]]

\* the notes files of a recording: whole files of up to MaxNotes notes, and
\* a file that ends before its end record
KtlxEntFiles ==
    {f \in EntFiles : f.present => (f.terminated \/ f.notes = <<>>)}

OldEntFile == [present |-> TRUE, notes |-> <<PayloadMontage>>, terminated |-> TRUE]

SncStamp(s, t) == [sampleStamp |-> s, sampleTime |-> t]

\* no sync file, one without a pair, with one pair, with two pairs
KtlxSncFiles ==
    {[present |-> FALSE, cut |-> FALSE, stamps |-> <<>>],
     [present |-> TRUE, cut |-> FALSE, stamps |-> <<>>],
     [present |-> TRUE, cut |-> FALSE, stamps |-> <<SncStamp(0, 0)>>],
     [present |-> TRUE, cut |-> FALSE, stamps |-> <<SncStamp(0, 0), SncStamp(30, 20)>>]}

\* no video index, one without a record, with one record, with one record
\* whose marker is wrong
KtlxVtcFiles ==
    {[present |-> FALSE, recs |-> <<>>],
     [present |-> TRUE, recs |-> <<>>],
     [present |-> TRUE, recs |-> <<[marker |-> correct, cut |-> "none"]>>],
     [present |-> TRUE, recs |-> <<[marker |-> OtherMarker, cut |-> "none"]>>]}

\* the directories a Ktlx object is made on: the recording P of one segment
\* with its auxiliary files, beside a recording Q with an empty index
KtlxDisks ==
    {[P |-> [stc |-> <<Stamp("a", 1)>>,
             erd |-> [n \in Names |-> IF n = "a" THEN ErdG1 ELSE Absent],
             ent |-> ee[1], ent_old |-> ee[2], snc |-> snc, vtc |-> vtc],
      Q |-> [stc |-> <<>>, erd |-> [n \in Names |-> Absent]]]
        : ee \in (KtlxEntFiles \X {NoEntFile}) \cup {<<NoEntFile, OldEntFile>>},
          snc \in KtlxSncFiles, vtc \in KtlxVtcFiles}

\* one call of return_hdr, from its first line to its return or exception
ReturnHdr ==
    /\ ktlx # NoKtlx
    /\ \E r \in {return_hdr(ktlx, disk[ktlx.filename])} :
          /\ call' = [fn |-> "return_hdr", arg |-> <<>>, status |-> r.status,
                      result |-> r.result]
          /\ ktlx' = [ktlx EXCEPT !.hdr.erd = r.erd]
    /\ UNCHANGED <<decvars, readvars>>

-----------------------------------------------------------------------------
(* Specification of a Ktlx object: return_hdr and return_dat in any order *)

InitKtlx ==
    /\ IdleDecode
    /\ disk \in KtlxDisks
    /\ temp = <<>>
    /\ ndecode = [p \in Paths |-> 0]
    /\ last = NoCall
    /\ probe = NoCall
    /\ probed = NoProbe
    /\ callers = <<>>
    /\ call = NoFileCall
    /\ ktlx = Ktlx("P", disk.P)

NextKtlx ==
    \/ ReturnHdr
    \/ ReturnDat

SpecKtlx == InitKtlx /\ [][NextKtlx]_vars


-----------------------------------------------------------------------------
(* _read_erd from its first line to the entry of the for loop, on a header  *)
(* file as _read_hdr_file reads it and with no memmap file in temp_dir      *)

\* i and abs_delta are assigned under `if hdr['file_schema'] in (7,)` and
\* `if hdr['file_schema'] in (8, 9)` only
ParamsBound(file_schema) == file_schema \in {7} \/ file_schema \in {8, 9}

\* hdr = _read_hdr_file(erd_file); n_chan = hdr['num_channels']; the memmap
\* of zeros; i and abs_delta; the first use of i is filebytes[i:i + 1] in
\* the first round of the loop
read_erd_start(f, ns) ==
    LET h == read_hdr_file(f)
    IN  IF h.status # "ok" THEN Failed(h.status)
        ELSE IF "num_channels" \notin DOMAIN h.result THEN Failed("KeyError")
        ELSE IF ns > 0 /\ ~ParamsBound(h.result.file_schema)
        THEN Failed("UnboundLocalError")
        ELSE [status |-> "ok",
              result |-> [hdr |-> h.result,
                          i |-> StreamStart(h.result.file_schema),
                          abs_delta |-> abs_delta(h.result.file_schema),
                          output |-> NewOutput(h.result.num_channels, ns)]]

ReadErdStart ==
    /\ \E f \in HdrFiles, ns \in 0..1 :
          call' = Called("_read_erd", [file |-> f, n_samples |-> ns],
                         read_erd_start(f, ns))
    /\ UNCHANGED <<ktlx, decvars, readvars>>


-----------------------------------------------------------------------------
(* Specification of the file-reading functions, called in any order *)

InitFiles ==
    /\ IdleDecode
    /\ disk = <<>>
    /\ temp = <<>>
    /\ ndecode = <<>>
    /\ last = NoCall
    /\ probe = NoCall
    /\ probed = NoProbe
    /\ callers = <<>>
    /\ call = NoFileCall
    /\ ktlx = NoKtlx

NextFiles ==
    \/ ReadHdrFile
    \/ CalculateConversion
    \/ ReadVtc
    \/ ReadEnt
    \/ Math
    \/ ReadErdStart

SpecFiles == InitFiles /\ [][NextFiles]_vars

-----------------------------------------------------------------------------
(* Properties of the file-reading functions (checked under SpecFiles) *)

\* two bytes as the unsigned little-endian number the format stores
Version(word) == word[1] + 256 * word[2]

\* C13: _read_hdr_file raises and returns no header, complete or partial,
\* whenever the schema version of the file is not one of 1, 7, 8, 9 or its
\* base-schema version is not 1.
C13_UnsupportedSchemaFails ==
    (/\ call.fn = "_read_hdr_file"
     /\ call.arg.present
     /\ Len(call.arg.schema) = 2
     /\ \/ Version(call.arg.schema) \notin {1, 7, 8, 9}
        \/ (Len(call.arg.base) = 2 /\ Version(call.arg.base) # 1)) =>
        (call.status # "ok" /\ DOMAIN call.result = {})

\* C13 witness: a complete file of schema 10 with base schema 1 was read
C13_Witness ==
    /\ call.fn = "_read_hdr_file"
    /\ call.arg.present
    /\ ~call.arg.cut
    /\ call.arg.schema = <<10, 0>>
    /\ call.arg.base = <<1, 0>>
    /\ call.status = "NotImplementedError"
    /\ DOMAIN call.result = {}

\* C14: for a header with a supported headbox type and any channel count,
\* _calculate_conversion returns exactly one factor per channel, indexed
\* 0 .. num_channels - 1.
C14_OneFactorPerChannel ==
    (/\ call.fn = "_calculate_conversion"
     /\ call.arg.headbox_type \in {1, 3, 4, 21, 22}) =>
        /\ call.status = "ok"
        /\ DOMAIN call.result = 0..(call.arg.num_channels - 1)

\* C15: _read_vtc raises when the marker of any record differs from the
\* magic constant; no record list is returned, so the record is not accepted.
C15_BadMarkerRaises ==
    (/\ call.fn = "_read_vtc"
     /\ \E k \in 1..Len(call.arg) :
           call.arg[k].marker
               # <<255, 254, 248, 94, 252, 220, 229, 68,
                    143, 174, 25, 245, 214, 34, 182, 212>>) =>
        (call.status # "ok" /\ call.result = <<>>)

\* C15 witness: a file of two whole records, the first with the magic
\* marker, the second with another one, was read and the assert raised
C15_Witness ==
    /\ call.fn = "_read_vtc"
    /\ Len(call.arg) = 2
    /\ call.arg[1] = [marker |-> correct, cut |-> "none"]
    /\ call.arg[2] = [marker |-> OtherMarker, cut |-> "none"]
    /\ call.status = "AssertionError"

\* C16: for a notes file with its end record, _read_ent returns one record
\* per note of nonzero type, its value the structured conversion of the
\* payload or, where that conversion fails, the raw text; no payload makes
\* _read_ent raise.
C16_NotesNeverRaise ==
    (call.fn = "_read_ent" /\ call.arg.present /\ call.arg.terminated) =>
        /\ call.status = "ok"
        /\ Len(call.result) = Len(call.arg.notes)
        /\ \A k \in 1..Len(call.arg.notes) :
              /\ call.result[k].value.of = call.arg.notes[k].id
              /\ call.result[k].value.kind =
                    (IF call.arg.notes[k].evaluates THEN call.arg.notes[k].kind
                     ELSE "str")

-----------------------------------------------------------------------------
(* Properties of the Ktlx object (checked under SpecKtlx) *)

\* the notes file return_hdr opens
NotesFile == IF disk.P.ent.present THEN disk.P.ent ELSE disk.P.ent_old

\* the file can be read to its end record
Readable(f) ==
    f.present /\ f.terminated /\ \A k \in 1..Len(f.notes) : f.notes[k].utf8

\* the notes whose text holds a ChanNames(...) marker
WithMarker(f) == {k \in 1..Len(f.notes) : f.notes[k].marker}

FirstWithMarker(f) == CHOOSE k \in WithMarker(f) : \A j \in WithMarker(f) : k <= j

\* C17: when a note of the notes file holds a ChanNames(...) marker,
\* return_hdr finds its channel names in the first such note, whether
\* or not the conversion of that note to a structure succeeded.
C17_NamesFromFirstMarkedNote ==
    (/\ call.fn = "return_hdr"
     /\ Readable(NotesFile)
     /\ WithMarker(NotesFile) # {}) =>
        /\ call.status # "UnboundLocalError"
        /\ call.status = "ok" =>
              call.result.chan_name = NotesFile.notes[FirstWithMarker(NotesFile)].names

\* each auxiliary file is absent or well formed: the notes file ends with
\* its end record and decodes, the sync file has two pairs at different
\* times, the records of the video index have the magic marker
AuxiliaryFilesSound ==
    /\ NotesFile.present => Readable(NotesFile)
    /\ disk.P.snc.present =>
          (/\ ~disk.P.snc.cut
           /\ Len(disk.P.snc.stamps) = 2
           /\ disk.P.snc.stamps[1].sampleTime # disk.P.snc.stamps[2].sampleTime)
    /\ disk.P.vtc.present =>
          \A k \in 1..Len(disk.P.vtc.recs) :
              disk.P.vtc.recs[k]
                  = [marker |-> <<255, 254, 248, 94, 252, 220, 229, 68,
                                  143, 174, 25, 245, 214, 34, 182, 212>>,
                     cut |-> "none"]

\* C18: whichever of the notes, sync and video-index files are present,
\* and also when no note of the notes file carries channel names,
\* return_hdr returns: subject id, start time, sample rate, a channel-name
\* list and the sample total.
C18_ReturnHdrCompletes ==
    (call.fn = "return_hdr" /\ AuxiliaryFilesSound) =>
        /\ call.status = "ok"
        /\ call.result.subj_id = <<"S1">>
        /\ call.result.start_time = 100
        /\ call.result.s_freq = 1
        /\ call.result.n_samples = 1
        /\ Len(call.result.chan_name) \in 0..2

-----------------------------------------------------------------------------
(* Properties of the math transform (checked under SpecFiles) *)

\* C19: math called with both an operator and an operator_name raises
\* TypeError before any operator is applied, and produces no output data.
C19_BothParametersRaise ==
    (/\ call.fn = "math"
     /\ call.arg.operator.type # "None"
     /\ call.arg.operator_name.type # "None") =>
        /\ call.status = "TypeError"
        /\ call.applied = 0
        /\ call.result = <<>>

\* C19 witness: math(data, operator=absolute, operator_name='square') raised
C19_Witness ==
    /\ call.fn = "math"
    /\ call.arg.operator = [type |-> "function", name |-> "absolute"]
    /\ call.arg.operator_name = [type |-> "str", value |-> "square"]
    /\ call.arg.data = << <<-2, 3>> >>
    /\ call.status = "TypeError"
    /\ call.applied = 0

-----------------------------------------------------------------------------
(* The stored header of the Ktlx object (checked under SpecKtlx) *)

\* C20: no call of return_hdr or return_dat adds, removes or changes a
\* field of the header the Ktlx object stored when it was constructed.
C20_StoredHeaderImmutable == [][ktlx'.hdr = ktlx.hdr]_vars

-----------------------------------------------------------------------------
(* The cache after a failed decode (checked under SpecRead) *)

\* C21: a segment whose decode loop ran and failed is never served from the
\* cache without an error: a call of return_dat that returns a matrix covers
\* no segment of its recording that was decoded and whose decode fails.
C21_FailedDecodeNotServed ==
    (last.status = "ok" /\ last.begsam < last.endsam) =>
        \A r \in 1..Len(last.rounds) :
            ndecode[<<last.dir, disk[last.dir].stc[last.rounds[r].rec + 1].segment_name>>] > 0
                => FreshSegment(last.dir, last.rounds[r].rec).status = "ok"

-----------------------------------------------------------------------------
(* The notes of the header summary (checked under SpecKtlx) *)

\* the sync file or the video index is not on disk
VideoFilesMissing == ~disk.P.snc.present \/ ~disk.P.vtc.present

\* C22: when the sync file or the video index is missing, the notes that
\* return_hdr computed from the notes file just before are left as they
\* were: the header holds what _read_notes returned.
C22_NotesKeptWhenVideoMissing ==
    (/\ call.fn = "return_hdr"
     /\ call.status \in {"ok", "UnboundLocalError"}
     /\ VideoFilesMissing
     /\ read_notes(ktlx, disk.P).status = "ok") =>
        ktlx.hdr.erd.notes = [key |-> TRUE, value |-> read_notes(ktlx, disk.P).result]

-----------------------------------------------------------------------------
(* Accepted headers and the decoder (checked under SpecFiles) *)

\* the file is whole and has a schema and a base schema that _read_hdr_file
\* accepts
AcceptedFile(f) ==
    /\ f.present
    /\ ~f.cut
    /\ Len(f.schema) = 2
    /\ Len(f.base) = 2
    /\ Version(f.schema) \in {1, 7, 8, 9}
    /\ Version(f.base) = 1

\* C23: on a file whose header _read_hdr_file accepts, _read_erd reaches its
\* decode loop: the header has the channel count, the headbox type and the
\* discard bits, and the stream start and the sentinel are defined.
C23_AcceptedHeaderDecodes ==
    (call.fn = "_read_erd" /\ AcceptedFile(call.arg.file)) =>
        /\ call.status = "ok"
        /\ {"num_channels", "headbox_type", "discardbits"} \subseteq DOMAIN call.result.hdr
        /\ call.result.i \in {4560, 8656}
        /\ Len(call.result.abs_delta) \in {1, 2}

=============================================================================
